---------------------------- MODULE Spec2Model ----------------------------
(***************************************************************************)
(* Model of src/src/executors/deploy/deploy.impl.ts: the Cloud Run deploy  *)
(* executor (manifest version resolution, flag assembly, one external      *)
(* command) and its older secrets-supporting variant.                      *)
(*                                                                         *)
(* JavaScript values are tagged records so that undefined, null, strings,  *)
(* numbers and booleans stay distinct.  Text that the code inspects        *)
(* character by character (versions, pyproject.toml, secrets) is a         *)
(* sequence of one-character strings; command tokens are strings.          *)
(***************************************************************************)
EXTENDS Integers, Sequences, FiniteSets, TLC

VARIABLES
  options,            \* the executor's options argument
  context,            \* the executor's context argument (projectName)
  pc,                 \* position in the executor body
  outputDirectory,    \* result of getOutputDirectoryFromBuildTarget
  name,               \* options.name defaulted to context.projectName
  dockerfileWritten,  \* writeFileSync(dist/Dockerfile) happened
  manifest,           \* what the file system held where the manifest is read
  packageVersion,     \* let packageVersion
  warnings,           \* logger.warn calls, in order
  infos,              \* logger.info calls, in order
  commandParts,       \* the tokens joined into the command
  execCalls,          \* execCommand calls, in order
  validSecrets,       \* const validSecrets (secrets variant only)
  result,             \* the value the executor resolved with
  error               \* the error the executor threw

vars == <<options, context, pc, outputDirectory, name, dockerfileWritten,
          manifest, packageVersion, warnings, infos, commandParts,
          execCalls, validSecrets, result, error>>

(***************************************************************************)
(* Bounds of the model.                                                    *)
(***************************************************************************)
MaxSidecars == 1
MaxSecrets == 2

(***************************************************************************)
(* JavaScript values.                                                      *)
(***************************************************************************)
Undef == [t |-> "undefined"]
Null == [t |-> "null"]
Str(s) == [t |-> "string", v |-> s]
Num(n) == [t |-> "number", v |-> n]
Bool(b) == [t |-> "boolean", v |-> b]

IsNullish(x) == x.t \in {"undefined", "null"}

\* ToBoolean: what `if (x)`, `!x`, `x && y` and filter(Boolean) test.
Truthy(x) ==
  CASE x.t = "undefined" -> FALSE
    [] x.t = "null" -> FALSE
    [] x.t = "boolean" -> x.v
    [] x.t = "number" -> x.v # 0
    [] x.t = "string" -> x.v # ""
    [] x.t = "chars" -> x.v # <<>>
    [] OTHER -> TRUE

\* a && b
And(a, b) == IF Truthy(a) THEN b ELSE a

\* a ?? b
Coalesce(a, b) == IF IsNullish(a) THEN b ELSE a

\* destructuring default: `x = d` applies to undefined only
Default(x, d) == IF x.t = "undefined" THEN d ELSE x

\* a string held as a sequence of one-character strings
Chars(s) == [t |-> "chars", v |-> s]

RECURSIVE Join(_)
Join(s) == IF s = <<>> THEN "" ELSE Head(s) \o Join(Tail(s))

RECURSIVE Flatten(_)
Flatten(ss) == IF ss = <<>> THEN <<>> ELSE Head(ss) \o Flatten(Tail(ss))

\* Array.prototype.filter(Boolean) on an array of strings
FilterBoolean(toks) == SelectSeq(toks, LAMBDA tok : tok # "")


(***************************************************************************)
(* Version tag: `v${version.replace(/\./g, '-')}` (lines 112 and 129).     *)
(***************************************************************************)
\* String.prototype.replace without the g flag: the first dot only
ReplaceFirstDot(s) ==
  [i \in 1..Len(s) |->
     IF s[i] = "." /\ (\A k \in 1..(i - 1) : s[k] # ".") THEN "-" ELSE s[i]]

\* String.prototype.replace(/\./g, '-')
ReplaceDots(s) == [i \in 1..Len(s) |-> IF s[i] = "." THEN "-" ELSE s[i]]

VersionTag(version) == "v" \o Join(ReplaceDots(version))

(***************************************************************************)
(* The pyproject.toml pattern of line 126,                                 *)
(*   /^\s*version\s*=\s*["']([^"']+)["']\s*$/m                             *)
(* matched as String.prototype.match does: the leftmost start wins, ^ and  *)
(* $ sit next to line terminators, \s also consumes line terminators.      *)
(***************************************************************************)
LineTerminators == {"\n", "\r"}
WhiteSpace == {" ", "\t", "\n", "\r"}
Quotes == {"\"", "'"}
VERSION == <<"v", "e", "r", "s", "i", "o", "n">>

\* ^ under the m flag: at the start of the input or after a line terminator
AtLineStart(c, i) == i = 1 \/ c[i - 1] \in LineTerminators

\* $ under the m flag: at the end of the input or before a line terminator
AtLineEnd(c, i) == i = Len(c) + 1 \/ c[i] \in LineTerminators

\* \s* followed by something that is no white space: the first position at
\* or after i that holds no white space (Len(c) + 1 when there is none)
SkipWs(c, i) ==
  LET stops == {j \in i..Len(c) : c[j] \notin WhiteSpace}
  IN IF stops = {} THEN Len(c) + 1
     ELSE CHOOSE j \in stops : \A k \in stops : j <= k

\* [^"']+ : the first position at or after i that holds a quote
SkipNonQuotes(c, i) ==
  LET stops == {j \in i..Len(c) : c[j] \in Quotes}
  IN IF stops = {} THEN Len(c) + 1
     ELSE CHOOSE j \in stops : \A k \in stops : j <= k

\* The capture group of a match that starts at position i, or Null.
MatchAt(c, i) ==
  LET n == Len(c)
      a == SkipWs(c, i)                          \* ^\s*
      b == a + Len(VERSION)                      \* version
      e == SkipWs(c, b)                          \* \s*
      q == SkipWs(c, e + 1)                      \* = \s*
      g == q + 1                                 \* ["'] then the group
      h == SkipNonQuotes(c, g)                   \* ([^"']+) then ["']
  IN IF /\ AtLineStart(c, i)
        /\ b - 1 <= n
        /\ SubSeq(c, a, b - 1) = VERSION
        /\ e <= n
        /\ c[e] = "="
        /\ q <= n
        /\ c[q] \in Quotes
        /\ h <= n
        /\ h > g
        \* \s*$ : only white space up to some line end
        /\ \E p \in (h + 1)..(n + 1) :
             /\ AtLineEnd(c, p)
             /\ \A k \in (h + 1)..(p - 1) : c[k] \in WhiteSpace
     THEN Chars(SubSeq(c, g, h - 1))
     ELSE Null

\* content.match(re): versionMatch[1] of the leftmost match, or null
VersionMatch(c) ==
  LET starts == {i \in 1..(Len(c) + 1) : MatchAt(c, i).t # "null"}
  IN IF starts = {} THEN Null
     ELSE MatchAt(c, CHOOSE i \in starts : \A k \in starts : i <= k)

(***************************************************************************)
(* yargs-unparser, as deploy.impl.ts uses it (line 175): the positional    *)
(* arguments first, then one group of tokens per key in insertion order.   *)
(***************************************************************************)
keyToFlag(key) == "--" \o key

unparseOption(key, value) ==
  CASE value.t = "string" -> <<keyToFlag(key), value.v>>
    [] value.t = "boolean" /\ value.v -> <<keyToFlag(key)>>
    [] value.t = "boolean" /\ ~value.v -> <<"--no-" \o key>>
    [] value.t = "number" -> <<keyToFlag(key), ToString(value.v)>>
    [] OTHER -> <<>>      \* undefined and null are skipped (value != null)

\* args is a sequence of <<key, value>> pairs in the object's key order
yargsUnparser(positional, args) ==
  positional \o
  Flatten([i \in 1..Len(args) |-> unparseOption(args[i][1], args[i][2])])


(***************************************************************************)
(* getContainerFlags (./utils/get-container-flags) is not among the        *)
(* sources; it is modelled from the design's section 4.3: the flags of one *)
(* container, led by a container identifier when one is required, missing  *)
(* optional fields omitted.                                                *)
(***************************************************************************)
ContainerToken(id) == "--container=" \o id

getContainerFlags(spec, containerRequired) ==
  (IF containerRequired /\ spec.name.t = "string"
     THEN <<ContainerToken(spec.name.v)>> ELSE <<>>)
  \o (IF spec.image.t = "string" THEN <<"--image=" \o spec.image.v>> ELSE <<>>)

(***************************************************************************)
(* The inputs.                                                             *)
(***************************************************************************)
\* optional fields of ExecutorSchema that become one flag each (lines
\* 156-171), with the values the model gives them when present
NumberFields == {"minInstances", "maxInstances", "concurrency", "timeout"}
StringFields == {"executionEnvironment", "vpcConnector", "vpcEgress", "ingress",
                 "revisionSuffix", "serviceAccount", "cloudSqlInstance"}
BooleanFields == {"cpuBoost", "noTraffic", "allowUnauthenticated"}
FlagFields == NumberFields \cup StringFields \cup BooleanFields \cup {"volumeName"}

Samples(f) ==
  CASE f = "minInstances" -> {Num(0)}
    [] f = "maxInstances" -> {Num(3)}
    [] f = "concurrency" -> {Num(80)}
    [] f = "timeout" -> {Num(300)}
    [] f = "executionEnvironment" -> {Str("gen2")}
    [] f = "vpcConnector" -> {Str("conn")}
    [] f = "vpcEgress" -> {Str("all-traffic")}
    [] f = "ingress" -> {Str("internal"), Str("")}
    [] f = "revisionSuffix" -> {Str("r1")}
    [] f = "serviceAccount" -> {Str("sa@p1")}
    [] f = "cloudSqlInstance" -> {Str("p1:db")}
    [] f = "volumeName" -> {Str("vol"), Str("")}
    [] OTHER -> {Bool(TRUE), Bool(FALSE)}

\* no optional field, one optional field alone, or all of them
FlagSettings ==
  {[f \in FlagFields |-> Undef]}
  \cup {[f \in FlagFields |-> IF f = g THEN x ELSE Undef] :
          g \in FlagFields, x \in UNION {Samples(h) : h \in FlagFields}}
  \cup {[f \in FlagFields |->
           IF f \in BooleanFields THEN Bool(b)
           ELSE CHOOSE x \in Samples(f) : Truthy(x) \/ x.t = "number"] :
          b \in BOOLEAN}

ValidFlagSettings ==
  {fs \in FlagSettings :
     \A f \in FlagFields : fs[f].t = "undefined" \/ fs[f] \in Samples(f)}

SidecarSamples ==
  {[name |-> Str("a"), image |-> Str("imgA")],
   [name |-> Str("b"), image |-> Undef]}

SidecarLists == UNION {[1..n -> SidecarSamples] : n \in 0..MaxSidecars}

OptionsDomain ==
  {fs @@ [name |-> nm, project |-> Str("p1"), region |-> Str("us-central1"),
          image |-> Str("img"), dockerFile |-> df, tagWithVersion |-> twv,
          manifestType |-> mt, sidecars |-> sc, dryRun |-> dr] :
     fs \in ValidFlagSettings,
     nm \in {Undef, Str(""), Str("svc")},
     df \in {Undef, Str("Dockerfile")},
     twv \in {Undef, Bool(FALSE), Bool(TRUE)},
     mt \in {Undef, Str("node"), Str("python")},
     sc \in SidecarLists,
     dr \in {Undef, Bool(TRUE), Bool(FALSE)}}

\* context.projectsConfigurations.projects
Projects == {"app"}
ContextDomain == {[projectName |-> pn] : pn \in {Undef, Str("app")}}


(***************************************************************************)
(* What the file system may hold where the manifest is read.               *)
(***************************************************************************)
V123 == <<"1", ".", "2", ".", "3">>
V040 == <<"0", ".", "4", ".", "0">>

\* package.json: absent, not JSON (readJsonFile throws), or an object
NodeManifests ==
  {[kind |-> "missing"], [kind |-> "invalid"]}
  \cup {[kind |-> "json", version |-> v] :
          v \in {Undef, Chars(<<>>), Chars(V123), Chars(V040), Num(1)}}

PyprojectSamples ==
  { \* version = "0.4.0"
    VERSION \o <<" ", "=", " ", "\"">> \o V040 \o <<"\"">>,
    \* [p] / "  version='1.2.3'  " / n = "x"
    <<"[", "p", "]", "\n", " ", " ">> \o VERSION \o <<"=", "'">> \o V123
      \o <<"'", " ", " ", "\n", "n", " ", "=", " ", "\"", "x", "\"">>,
    \* two version lines: the first one wins
    VERSION \o <<" ", "=", " ", "'">> \o V040 \o <<"'", "\r", "\n">>
      \o VERSION \o <<" ", "=", " ", "\"">> \o V123 \o <<"\"", "\n">>,
    \* n = "x"
    <<"n", " ", "=", " ", "\"", "x", "\"", "\n">>,
    \* version = 0.4.0 (no quotes)
    VERSION \o <<" ", "=", " ">> \o V040,
    \* version = "1.2.3" #c (text after the closing quote)
    VERSION \o <<" ", "=", " ", "\"">> \o V123 \o <<"\"", " ", "#", "c">>,
    \* an empty file
    <<>> }

\* pyproject.toml: absent, present but readFileSync throws, or text
PythonManifests ==
  {[kind |-> "missing"], [kind |-> "unreadable"]}
  \cup {[kind |-> "text", content |-> c] : c \in PyprojectSamples}

Unread == [kind |-> "unread"]

(***************************************************************************)
(* The primary executor, deployExecutor of lines 46-192.                   *)
(***************************************************************************)
NoResult == [t |-> "none"]
NoError == "none"

Init ==
  /\ options \in OptionsDomain
  /\ context \in ContextDomain
  \* a deployment with sidecars names its primary container
  /\ options.sidecars # <<>> => options.name.t = "string"
  /\ pc = "start"
  /\ outputDirectory = Undef
  /\ name = Undef
  /\ dockerfileWritten = FALSE
  /\ manifest = Unread
  /\ packageVersion = Null
  /\ warnings = <<>>
  /\ infos = <<>>
  /\ commandParts = <<>>
  /\ execCalls = <<>>
  /\ validSecrets = <<>>
  /\ result = NoResult
  /\ error = NoError

\* throw new Error(msg): the executor rejects and nothing else runs
Throw(msg) ==
  /\ error' = msg
  /\ pc' = "failed"

\* String(context.projectName)
ProjectKey == IF context.projectName.t = "string" THEN context.projectName.v
              ELSE "undefined"

\* lines 50-57
ResolveOutputDirectory ==
  /\ pc = "start"
  /\ IF ProjectKey \notin Projects
       THEN \* destructuring { root } of undefined
            /\ Throw("TypeError: Cannot destructure property 'root'")
            /\ UNCHANGED outputDirectory
       ELSE \E dir \in {Undef, Str("dist/app")} :
              /\ outputDirectory' = dir
              /\ IF ~Truthy(dir)
                   THEN Throw("Build target has no \"outputPath\" configured!")
                   ELSE pc' = "options" /\ UNCHANGED error
  /\ UNCHANGED <<options, context, name, dockerfileWritten, manifest,
                 packageVersion, warnings, infos, commandParts, execCalls,
                 validSecrets, result>>

\* lines 59-83 without the check of lines 85-87
DefaultNameUnchecked ==
  /\ pc = "options"
  /\ name' = Default(options.name, context.projectName)
  /\ pc' = "stage"
  /\ UNCHANGED <<options, context, outputDirectory, dockerfileWritten,
                 manifest, packageVersion, warnings, infos, commandParts,
                 execCalls, validSecrets, result, error>>

\* lines 59-87
DefaultName ==
  /\ pc = "options"
  /\ name' = Default(options.name, context.projectName)
  /\ IF ~Truthy(name')
       THEN Throw("Project name is required (name)")
       ELSE pc' = "stage" /\ UNCHANGED error
  /\ UNCHANGED <<options, context, outputDirectory, dockerfileWritten,
                 manifest, packageVersion, warnings, infos, commandParts,
                 execCalls, validSecrets, result>>

\* lines 89-100: readFileSync of the user's Dockerfile may fail
StageDockerfile ==
  /\ pc = "stage"
  /\ IF Truthy(options.dockerFile)
       THEN \E readable \in BOOLEAN :
              IF readable
                THEN /\ dockerfileWritten' = TRUE
                     /\ pc' = "version"
                     /\ UNCHANGED error
                ELSE /\ Throw("ENOENT: no such file or directory")
                     /\ UNCHANGED dockerfileWritten
       ELSE /\ pc' = "version"
            /\ UNCHANGED <<dockerfileWritten, error>>
  /\ UNCHANGED <<options, context, outputDirectory, name, manifest,
                 packageVersion, warnings, infos, commandParts, execCalls,
                 validSecrets, result>>


\* the outcome of one branch of lines 104-141
Outcome(version, warns, infs, err) ==
  [packageVersion |-> version, warnings |-> warns, infos |-> infs,
   error |-> err]

\* lines 105-117: package.json
ResolveNode(m) ==
  CASE m.kind = "missing" ->
         Outcome(Null, <<"tagWithVersion is enabled but package.json not found">>,
                 <<>>, NoError)
    [] m.kind = "invalid" ->
         \* readJsonFile throws and nothing catches it
         Outcome(Null, <<>>, <<>>, "SyntaxError: Cannot parse package.json")
    [] OTHER ->
         IF ~Truthy(m.version) THEN Outcome(Null, <<>>, <<>>, NoError)
         ELSE IF m.version.t # "chars"
           THEN Outcome(Null, <<>>, <<>>,
                        "TypeError: packageJson.version.replace is not a function")
           ELSE Outcome(Str(VersionTag(m.version.v)), <<>>,
                        <<"Using package.json version: " \o Join(m.version.v)>>,
                        NoError)

\* lines 118-139: pyproject.toml
ResolvePython(m) ==
  CASE m.kind = "missing" ->
         Outcome(Null, <<"tagWithVersion is enabled but pyproject.toml not found">>,
                 <<>>, NoError)
    [] m.kind = "unreadable" ->
         \* readFileSync throws inside the try
         Outcome(Null, <<"Failed to parse pyproject.toml">>, <<>>, NoError)
    [] OTHER ->
         LET versionMatch == VersionMatch(m.content)
         IN IF versionMatch.t # "null"
              THEN Outcome(Str(VersionTag(versionMatch.v)), <<>>,
                           <<"Using pyproject.toml version: "
                               \o Join(versionMatch.v)>>,
                           NoError)
              ELSE Outcome(Null,
                           <<"pyproject.toml found but no version field detected">>,
                           <<>>, NoError)

\* destructuring defaults of lines 69-70
tagWithVersion == Default(options.tagWithVersion, Bool(FALSE))
manifestType == Default(options.manifestType, Str("node"))

ManifestsOf(type) == IF type = Str("node") THEN NodeManifests ELSE PythonManifests

\* lines 102-141
ResolveVersion ==
  /\ pc = "version"
  /\ IF Truthy(tagWithVersion)
       THEN \E m \in ManifestsOf(manifestType) :
              LET o == IF manifestType = Str("node") THEN ResolveNode(m)
                       ELSE ResolvePython(m)
              IN /\ manifest' = m
                 /\ packageVersion' = o.packageVersion
                 /\ warnings' = warnings \o o.warnings
                 /\ infos' = infos \o o.infos
                 /\ IF o.error # NoError THEN Throw(o.error)
                    ELSE pc' = "assemble" /\ UNCHANGED error
       ELSE /\ pc' = "assemble"
            /\ UNCHANGED <<manifest, packageVersion, warnings, infos, error>>
  /\ UNCHANGED <<options, context, outputDirectory, name, dockerfileWritten,
                 commandParts, execCalls, validSecrets, result>>

\* the verb left on the stable surface
gcloudDeployStable == "gcloud run deploy"

\* lines 143-147
gcloudDeploy ==
  IF Truthy(options.volumeName) THEN "gcloud beta run deploy"
  ELSE "gcloud run deploy"

\* line 167: tag: (tagWithVersion && packageVersion) ?? undefined
TagArg == Coalesce(And(tagWithVersion, packageVersion), Undef)

\* lines 150-172, in key order
Args ==
  << <<"project", options.project>>,
     <<"platform", Str("managed")>>,
     <<"quiet", Bool(TRUE)>>,
     <<"region", options.region>>,
     <<"min-instances", options.minInstances>>,
     <<"max-instances", options.maxInstances>>,
     <<"concurrency", options.concurrency>>,
     <<"execution-environment", options.executionEnvironment>>,
     <<"vpc-connector", options.vpcConnector>>,
     <<"vpc-egress", options.vpcEgress>>,
     <<"ingress", options.ingress>>,
     <<"revision-suffix", Coalesce(options.revisionSuffix, Undef)>>,
     <<"service-account", options.serviceAccount>>,
     <<"timeout", options.timeout>>,
     <<"add-cloudsql-instances", options.cloudSqlInstance>>,
     <<"tag", TagArg>>,
     <<"cpu-boost", options.cpuBoost>>,
     <<"no-traffic", Coalesce(options.noTraffic, Undef)>>,
     <<"allow-unauthenticated",
       Coalesce(Default(options.allowUnauthenticated, Bool(TRUE)), Undef)>>,
     <<"add-volume",
       IF Truthy(options.volumeName) THEN Str("name=" \o options.volumeName.v)
       ELSE Undef>> >>

\* line 175
baseFlags == yargsUnparser(<<name.v>>, Args)

\* the primary container never qualified
containerFlagsUnqualified == getContainerFlags(options, FALSE)

\* line 178
containerFlags == getContainerFlags(options, options.sidecars # <<>>)

\* line 179
sidecarFlags ==
  Flatten([i \in 1..Len(options.sidecars) |->
             getContainerFlags(options.sidecars[i], TRUE)])

\* the tokens without the filter(Boolean) of line 187
CommandPartsUnfiltered ==
  <<gcloudDeploy>> \o baseFlags \o containerFlags \o sidecarFlags

\* lines 182-187
CommandParts ==
  FilterBoolean(<<gcloudDeploy>> \o baseFlags \o containerFlags \o sidecarFlags)

RECURSIVE JoinWith(_, _)
JoinWith(parts, sep) ==
  IF parts = <<>> THEN ""
  ELSE IF Len(parts) = 1 THEN parts[1]
  ELSE parts[1] \o sep \o JoinWith(Tail(parts), sep)

VolumeWarning == "Volumes are still in beta, using \"gcloud beta\" to deploy."

\* lines 143-189
AssembleCommand ==
  /\ pc = "assemble"
  /\ warnings' = IF Truthy(options.volumeName)
                   THEN Append(warnings, VolumeWarning) ELSE warnings
  /\ commandParts' = CommandParts
  /\ pc' = "exec"
  /\ UNCHANGED <<options, context, outputDirectory, name, dockerfileWritten,
                 manifest, packageVersion, infos, execCalls, validSecrets,
                 result, error>>

\* line 191: execCommand succeeds or fails; its result is returned as is
ExecCommand ==
  /\ pc = "exec"
  /\ \E success \in BOOLEAN :
       /\ execCalls' = Append(execCalls,
                              [command |-> JoinWith(commandParts, " "),
                               dryRun |-> options.dryRun,
                               returned |-> [success |-> success]])
       /\ result' = [t |-> "value", v |-> [success |-> success]]
  /\ pc' = "done"
  /\ UNCHANGED <<options, context, outputDirectory, name, dockerfileWritten,
                 manifest, packageVersion, warnings, infos, commandParts,
                 validSecrets, error>>

Next ==
  \/ ResolveOutputDirectory
  \/ DefaultName
  \/ StageDockerfile
  \/ ResolveVersion
  \/ AssembleCommand
  \/ ExecCommand

Spec == Init /\ [][Next]_vars


(***************************************************************************)
(* The secrets-supporting variant, deployExecutor of lines 203-348.        *)
(***************************************************************************)
\* buildCommand of @nx-extend/core: the truthy parts joined by a space
buildCommand(parts) == SelectSeq(parts, Truthy)

ValuesOf(parts) == [i \in 1..Len(parts) |-> parts[i].v]

\* String.prototype.includes for one character
Includes(secret, ch) == \E i \in 1..Len(secret) : secret[i] = ch

\* line 295
IsValidSecret(secret) == Includes(secret, "=") /\ Includes(secret, ":")

SecretWarning(secret) ==
  "\"" \o Join(secret) \o "\" is not a valid secret! It should be in the "
  \o "following format \"ENV_VAR_NAME=SECRET:VERSION\""

\* lines 294-301: map to the secret or false, then filter(Boolean)
ValidSecrets(secrets) == SelectSeq(secrets, IsValidSecret)
InvalidSecretWarnings(secrets) ==
  LET bad == SelectSeq(secrets, LAMBDA x : ~IsValidSecret(x))
  IN [i \in 1..Len(bad) |-> SecretWarning(bad[i])]

SecretSamples ==
  { <<"A", "=", "B", ":", "C">>,
    <<"D", "B", "=", "S", ":", "1">>,
    <<"A">>,
    <<"A", "=", "B">>,
    <<"A", ":", "B">>,
    <<"A", ":", "B", "=", "C">>,
    <<"=", ":">> }

SecretLists == UNION {[1..n -> SecretSamples] : n \in 0..MaxSecrets}

SecretsOptionsDomain ==
  {[name |-> nm, project |-> Str("p1"), region |-> Str("us-central1"),
    dockerFile |-> df, buildWith |-> bw, tagWithVersion |-> twv,
    secrets |-> sec, generateRepoInfoFile |-> gen,
    allowUnauthenticated |-> Undef, concurrency |-> Undef,
    maxInstances |-> Undef, minInstances |-> Undef, memory |-> Undef,
    cloudSqlInstance |-> Undef, http2 |-> Undef, serviceAccount |-> svc,
    logsDir |-> Undef, noTraffic |-> Undef, revisionSuffix |-> Undef,
    autoCreateArtifactsRepo |-> Undef, timeout |-> Undef] :
     nm \in {Undef, Str("svc")},
     df \in {Undef, Str("Dockerfile")},
     bw \in {Undef, Str("cloud-build")},
     twv \in {Undef, Bool(TRUE)},
     sec \in SecretLists,
     gen \in {Undef, Bool(TRUE)},
     svc \in {Undef, Str("sa@p1")}}

InitSecrets ==
  /\ options \in SecretsOptionsDomain
  /\ context = [projectName |-> Str("app")]
  /\ pc = "start"
  /\ outputDirectory = Undef
  /\ name = Undef
  /\ dockerfileWritten = FALSE
  /\ manifest = Unread
  /\ packageVersion = Null
  /\ warnings = <<>>
  /\ infos = <<>>
  /\ commandParts = <<>>
  /\ execCalls = <<>>
  /\ validSecrets = <<>>
  /\ result = NoResult
  /\ error = NoError

\* destructuring defaults of lines 213-236
SecretsDefaults ==
  [name |-> Default(options.name, context.projectName),
   allowUnauthenticated |-> Default(options.allowUnauthenticated, Bool(TRUE)),
   concurrency |-> Default(options.concurrency, Num(250)),
   maxInstances |-> Default(options.maxInstances, Num(10)),
   minInstances |-> Default(options.minInstances, Num(0)),
   memory |-> Default(options.memory, Str("128Mi")),
   cloudSqlInstance |-> Default(options.cloudSqlInstance, Null),
   http2 |-> Default(options.http2, Bool(FALSE)),
   serviceAccount |-> Default(options.serviceAccount, Null),
   logsDir |-> Default(options.logsDir, Bool(FALSE)),
   tagWithVersion |-> Default(options.tagWithVersion, Bool(FALSE)),
   noTraffic |-> Default(options.noTraffic, Bool(FALSE)),
   revisionSuffix |-> Default(options.revisionSuffix, Bool(FALSE)),
   buildWith |-> Default(options.buildWith, Str("artifact-registry")),
   autoCreateArtifactsRepo |->
     Default(options.autoCreateArtifactsRepo, Bool(TRUE)),
   generateRepoInfoFile |-> Default(options.generateRepoInfoFile, Bool(FALSE)),
   timeout |-> Default(options.timeout, Null)]

\* line 243
buildWithArtifactRegistry == SecretsDefaults.buildWith = Str("artifact-registry")
\* line 244
containerName == "gcr.io/" \o options.project.v \o "/" \o SecretsDefaults.name.v

\* `${x}` of a string or a number
Template(x) == IF x.t = "number" THEN ToString(x.v) ELSE x.v

\* an execCommand call of this variant (no dry-run argument)
Exec(command, success) ==
  [command |-> command, dryRun |-> Undef, returned |-> [success |-> success]]

\* lines 207-211
SecretsCheckBuildTarget ==
  /\ pc = "start"
  /\ \E outputPath \in {Undef, Str("dist/app")} :
       /\ outputDirectory' = outputPath
       /\ IF ~Truthy(outputPath)
            THEN Throw("No build target configured!") /\ UNCHANGED name
            ELSE /\ name' = SecretsDefaults.name
                 /\ pc' = "stage"
                 /\ UNCHANGED error
  /\ UNCHANGED <<options, context, dockerfileWritten, manifest,
                 packageVersion, warnings, infos, commandParts, execCalls,
                 validSecrets, result>>

\* lines 246-255
SecretsStageDockerfile ==
  /\ pc = "stage"
  /\ IF Truthy(options.dockerFile)
       THEN \E readable \in BOOLEAN :
              IF readable
                THEN /\ dockerfileWritten' = TRUE
                     /\ pc' = "build"
                     /\ UNCHANGED error
                ELSE /\ Throw("ENOENT: no such file or directory")
                     /\ UNCHANGED dockerfileWritten
       ELSE /\ pc' = "build"
            /\ UNCHANGED <<dockerfileWritten, error>>
  /\ UNCHANGED <<options, context, outputDirectory, name, manifest,
                 packageVersion, warnings, infos, commandParts, execCalls,
                 validSecrets, result>>

\* lines 257-272
SecretsBuildSubmit ==
  /\ pc = "build"
  /\ IF ~buildWithArtifactRegistry
       THEN \E success \in BOOLEAN :
              /\ execCalls' =
                   Append(execCalls,
                          Exec(JoinWith(ValuesOf(buildCommand(
                                 <<Str("gcloud builds submit"),
                                   Str("--tag=" \o containerName),
                                   Str("--project=" \o options.project.v),
                                   IF Truthy(SecretsDefaults.logsDir)
                                     THEN Str("--gcs-log-dir="
                                              \o SecretsDefaults.logsDir.v)
                                     ELSE Bool(FALSE)>>)), " "),
                               success))
              /\ IF ~success THEN Throw("Failed building container!")
                 ELSE pc' = "version" /\ UNCHANGED error
       ELSE /\ pc' = "version"
            /\ UNCHANGED <<execCalls, error>>
  /\ UNCHANGED <<options, context, outputDirectory, name, dockerfileWritten,
                 manifest, packageVersion, warnings, infos, commandParts,
                 validSecrets, result>>

\* lines 274-286: package.json only, and no warning on any path
SecretsResolveVersion ==
  /\ pc = "version"
  /\ IF Truthy(SecretsDefaults.tagWithVersion)
       THEN \E m \in NodeManifests :
              LET o == ResolveNode(m)
              IN /\ manifest' = m
                 /\ packageVersion' = o.packageVersion
                 /\ IF o.error # NoError THEN Throw(o.error)
                    ELSE pc' = "secrets" /\ UNCHANGED error
       ELSE /\ pc' = "secrets"
            /\ UNCHANGED <<manifest, packageVersion, error>>
  /\ UNCHANGED <<options, context, outputDirectory, name, dockerfileWritten,
                 warnings, infos, commandParts, execCalls, validSecrets,
                 result>>

\* lines 288-301
SecretsFilter ==
  /\ pc = "secrets"
  /\ validSecrets' = ValidSecrets(options.secrets)
  /\ warnings' = warnings \o InvalidSecretWarnings(options.secrets)
  /\ pc' = "repoinfo"
  /\ UNCHANGED <<options, context, outputDirectory, name, dockerfileWritten,
                 manifest, packageVersion, infos, commandParts, execCalls,
                 result, error>>

\* lines 303-311: the result of this execCommand is dropped
SecretsRepoInfo ==
  /\ pc = "repoinfo"
  /\ IF Truthy(SecretsDefaults.generateRepoInfoFile)
       THEN /\ infos' = Append(infos, "Generating repo info file")
            /\ \E success \in BOOLEAN :
                 execCalls' =
                   Append(execCalls,
                          Exec("gcloud debug source gen-repo-info-file "
                               \o "--source-directory=apps/app/src "
                               \o "--output-directory=" \o outputDirectory.v,
                               success))
       ELSE UNCHANGED <<infos, execCalls>>
  /\ pc' = "deploy"
  /\ UNCHANGED <<options, context, outputDirectory, name, dockerfileWritten,
                 manifest, packageVersion, warnings, commandParts,
                 validSecrets, result, error>>

\* lines 313-317
gcloudCommand == IF Len(validSecrets) > 0 THEN "gcloud beta" ELSE "gcloud"

\* x && `--flag=${x}`
FlagIf(x, flag) == And(x, Str(flag \o "=" \o Template(x)))

\* lines 319-343
deployCommand ==
  LET d == SecretsDefaults
  IN buildCommand(
       <<Str(gcloudCommand \o " run deploy " \o d.name.v),
         And(Bool(~buildWithArtifactRegistry), Str("--image=" \o containerName)),
         And(Bool(buildWithArtifactRegistry), Str("--source=./")),
         Str("--project=" \o options.project.v),
         Str("--platform=managed"),
         Str("--memory=" \o Template(d.memory)),
         Str("--region=" \o options.region.v),
         Str("--min-instances=" \o Template(d.minInstances)),
         Str("--max-instances=" \o Template(d.maxInstances)),
         Str("--concurrency=" \o Template(d.concurrency)),
         FlagIf(d.revisionSuffix, "--revision-suffix"),
         FlagIf(d.serviceAccount, "--service-account"),
         And(d.http2, Str("--use-http2")),
         And(d.noTraffic, Str("--no-traffic")),
         FlagIf(d.timeout, "--timeout"),
         Bool(FALSE),    \* setEnvVars.length > 0 with envVars = {}
         FlagIf(d.cloudSqlInstance, "--add-cloudsql-instances"),
         And(d.allowUnauthenticated, Str("--allow-unauthenticated")),
         And(d.tagWithVersion, FlagIf(packageVersion, "--tag")),
         And(Bool(Len(validSecrets) > 0),
             Str("--set-secrets="
                 \o JoinWith([i \in 1..Len(validSecrets) |->
                                Join(validSecrets[i])], ","))),
         And(Bool(buildWithArtifactRegistry),
             And(d.autoCreateArtifactsRepo, Str("--quiet")))>>)

\* lines 313-347
SecretsDeploy ==
  /\ pc = "deploy"
  /\ infos' = IF Len(validSecrets) > 0
                THEN Append(infos, "Using secrets, use gcloud beta") ELSE infos
  /\ commandParts' = ValuesOf(deployCommand)
  /\ \E success \in BOOLEAN :
       /\ execCalls' = Append(execCalls,
                              Exec(JoinWith(commandParts', " "), success))
       /\ result' = [t |-> "value", v |-> [success |-> success]]
  /\ pc' = "done"
  /\ UNCHANGED <<options, context, outputDirectory, name, dockerfileWritten,
                 manifest, packageVersion, warnings, validSecrets, error>>

NextSecrets ==
  \/ SecretsCheckBuildTarget
  \/ SecretsStageDockerfile
  \/ SecretsBuildSubmit
  \/ SecretsResolveVersion
  \/ SecretsFilter
  \/ SecretsRepoInfo
  \/ SecretsDeploy

SpecSecrets == InitSecrets /\ [][NextSecrets]_vars

(***************************************************************************)
(* Vocabulary of the properties.                                           *)
(***************************************************************************)
Tokens == {commandParts[i] : i \in DOMAIN commandParts}
Positions(tok) == {i \in DOMAIN commandParts : commandParts[i] = tok}

\* the command has been composed
Assembled == pc \in {"exec", "done"}
\* the invocation is over
Terminal == pc \in {"done", "failed"}
\* version resolution read the manifest
Resolved == manifest.kind # "unread"

\* resolution produced no version: file absent, no version field, or not
\* parseable
NoVersionField ==
  \/ manifest.kind = "json" /\ manifest.version.t = "undefined"
  \/ manifest.kind = "text" /\ VersionMatch(manifest.content).t = "null"
ResolutionFailed ==
  \/ manifest.kind \in {"missing", "invalid", "unreadable"}
  \/ NoVersionField

ResolutionWarnings == SelectSeq(warnings, LAMBDA w : w # VolumeWarning)

(***************************************************************************)
(* C1: the command carries a tag flag, with the resolved tag, exactly when *)
(* tagWithVersion is requested and resolution produced a tag; otherwise no *)
(* tag token of any form appears.                                          *)
(* The code renders `false ?? undefined`, i.e. false, as --no-tag.         *)
(***************************************************************************)
C1_TagOnlyWhenResolved ==
  Assembled =>
    IF Truthy(tagWithVersion) /\ packageVersion.t = "string"
      THEN /\ Cardinality(Positions("--tag")) = 1
           /\ \A i \in Positions("--tag") :
                i < Len(commandParts) /\ commandParts[i + 1] = packageVersion.v
           /\ "--no-tag" \notin Tokens
      ELSE /\ "--tag" \notin Tokens
           /\ "--no-tag" \notin Tokens

(***************************************************************************)
(* C2: when tagging is requested and the manifest is missing, has no       *)
(* version field or cannot be parsed, the executor raises no error,        *)
(* produces no tag and executes the deploy command without a tag flag.     *)
(* An unparseable package.json makes readJsonFile throw out of the         *)
(* executor.                                                               *)
(***************************************************************************)
C2_ResolutionNeverAborts ==
  (Terminal /\ Resolved /\ Truthy(tagWithVersion) /\ ResolutionFailed) =>
    /\ error = NoError
    /\ packageVersion.t = "null"
    /\ Len(execCalls) = 1
    /\ "--tag" \notin Tokens

(***************************************************************************)
(* C3: a failed resolution logs exactly one warning; a successful one, or  *)
(* no tagging, logs none.                                                  *)
(* A package.json without a version field is passed over silently.         *)
(***************************************************************************)
C3_OneWarningPerFailure ==
  (Terminal \/ Assembled \/ pc = "assemble") =>
    Len(ResolutionWarnings) =
      IF Truthy(tagWithVersion) /\ Resolved /\ ResolutionFailed THEN 1 ELSE 0

(***************************************************************************)
(* C4: an optional field that is absent contributes no token of its flag,  *)
(* and no token of the command is empty or spells undefined or null.       *)
(***************************************************************************)
FlagOf(f) ==
  CASE f = "minInstances" -> "min-instances"
    [] f = "maxInstances" -> "max-instances"
    [] f = "executionEnvironment" -> "execution-environment"
    [] f = "vpcConnector" -> "vpc-connector"
    [] f = "vpcEgress" -> "vpc-egress"
    [] f = "revisionSuffix" -> "revision-suffix"
    [] f = "serviceAccount" -> "service-account"
    [] f = "cloudSqlInstance" -> "add-cloudsql-instances"
    [] f = "cpuBoost" -> "cpu-boost"
    [] f = "noTraffic" -> "no-traffic"
    [] f = "volumeName" -> "add-volume"
    [] OTHER -> f      \* concurrency, ingress, timeout

OptionalFields == FlagFields \ {"allowUnauthenticated"}

C4_AbsentFieldsOmitted ==
  Assembled =>
    /\ \A f \in OptionalFields :
         options[f].t = "undefined" =>
           Tokens \cap {"--" \o FlagOf(f), "--no-" \o FlagOf(f)} = {}
    /\ Tokens \cap {"", "undefined", "null"} = {}

\* one optional field set, another left out
C4_Witness ==
  /\ pc = "done"
  /\ options.minInstances.t = "number"
  /\ options.maxInstances.t = "undefined"
  /\ "--min-instances" \in Tokens

\* an optional field present but empty: its value token is filtered out
C4_WitnessEmptyValue ==
  pc = "done" /\ options.ingress = Str("") /\ "--ingress" \in Tokens

(***************************************************************************)
(* C5: the verb is the beta surface exactly when a volume descriptor is    *)
(* given, and then exactly one add-volume token with name=<volumeName>     *)
(* follows; without one the verb is stable and no add-volume token         *)
(* appears.                                                                *)
(***************************************************************************)
C5_VolumeSwitchesVerb ==
  Assembled =>
    IF Truthy(options.volumeName)
      THEN /\ commandParts[1] = "gcloud beta run deploy"
           /\ Cardinality(Positions("--add-volume")) = 1
           /\ \A i \in Positions("--add-volume") :
                /\ i < Len(commandParts)
                /\ commandParts[i + 1] = "name=" \o options.volumeName.v
      ELSE /\ commandParts[1] = "gcloud run deploy"
           /\ Positions("--add-volume") = {}
           /\ "gcloud beta run deploy" \notin Tokens

C5_Witness ==
  /\ pc = "done"
  /\ options.volumeName = Str("vol")
  /\ commandParts[1] = "gcloud beta run deploy"

(***************************************************************************)
(* C6: without sidecars no container identifier appears; with sidecars     *)
(* the primary container and every sidecar carry one, and the groups       *)
(* follow the base flags in the order primary, then sidecars as declared.  *)
(***************************************************************************)
\* the names a container of this invocation may carry
ContainerNames ==
  {"svc", "app"} \cup
  {options.sidecars[i].name.v : i \in DOMAIN options.sidecars}
IsContainerToken(tok) == \E id \in ContainerNames : tok = ContainerToken(id)
Qualifiers == SelectSeq(commandParts, IsContainerToken)
\* the position of the k-th container identifier (past the end when none)
QPos(k) ==
  LET at == {p \in DOMAIN commandParts :
               /\ IsContainerToken(commandParts[p])
               /\ Cardinality({q \in 1..p : IsContainerToken(commandParts[q])}) = k}
  IN IF at = {} THEN Len(commandParts) + 1 ELSE CHOOSE p \in at : TRUE
BaseFlagTokens == {"--project", "--platform", "--quiet", "--region",
                   "--allow-unauthenticated", "--no-allow-unauthenticated",
                   "--tag", "--add-volume"}
LastBaseFlag ==
  LET at == UNION {Positions(t) : t \in BaseFlagTokens}
  IN CHOOSE p \in at : \A q \in at : q <= p

C6_WitnessNoSidecars ==
  pc = "done" /\ options.sidecars = <<>> /\ Qualifiers = <<>>

(***************************************************************************)
(* C7: the name falls back to the project name when unset; when the output *)
(* directory is not resolved, or the name is still empty, the executor     *)
(* fails, writes no Dockerfile and executes nothing.                       *)
(***************************************************************************)
NameAfterFallback ==
  IF options.name.t = "undefined" THEN context.projectName ELSE options.name

C7_FatalPreconditions ==
  /\ pc \in {"stage", "version", "assemble", "exec", "done"} =>
       name = NameAfterFallback
  /\ (dockerfileWritten \/ execCalls # <<>>) =>
       Truthy(outputDirectory) /\ Truthy(NameAfterFallback)
  /\ (Terminal /\ (~Truthy(outputDirectory) \/ ~Truthy(NameAfterFallback))) =>
       /\ error # NoError
       /\ pc = "failed"
       /\ ~dockerfileWritten
       /\ execCalls = <<>>

\* an empty name with a Dockerfile to stage: fatal before staging
C7_Witness ==
  /\ pc = "failed"
  /\ options.name = Str("")
  /\ Truthy(options.dockerFile)
  /\ Truthy(outputDirectory)
  /\ error = "Project name is required (name)"

C7_WitnessFallback ==
  pc = "done" /\ options.name.t = "undefined" /\ name = Str("app")

(***************************************************************************)
(* C8: an invocation that passes the precondition checks (and stages its   *)
(* Dockerfile) calls the external executor exactly once, on the composed   *)
(* command with dryRun forwarded, and returns its result unmodified.       *)
(* An unparseable package.json ends the invocation before the call.        *)
(***************************************************************************)
StagingFailed == error = "ENOENT: no such file or directory"

C8_ExactlyOneExec ==
  /\ Len(execCalls) <= 1
  /\ (Terminal /\ Truthy(outputDirectory) /\ Truthy(name) /\ ~StagingFailed) =>
       /\ Len(execCalls) = 1
       /\ execCalls[1].command = JoinWith(commandParts, " ")
       /\ execCalls[1].dryRun = options.dryRun
       /\ result = [t |-> "value", v |-> execCalls[1].returned]
       /\ error = NoError

(***************************************************************************)
(* C9: when the manifest holds a version string, the tag is v followed by  *)
(* the version with every dot replaced by a hyphen.                        *)
(***************************************************************************)
RECURSIVE Hyphenated(_)
Hyphenated(v) ==
  IF v = <<>> THEN ""
  ELSE (IF Head(v) = "." THEN "-" ELSE Head(v)) \o Hyphenated(Tail(v))

\* the lines of a text: maximal runs without a line terminator
LinesOf(c) ==
  {SubSeq(c, x[1], x[2]) :
     x \in {y \in (1..(Len(c) + 1)) \X (0..Len(c)) :
              /\ y[1] <= y[2] + 1
              /\ \A k \in y[1]..y[2] : c[k] \notin LineTerminators
              /\ y[1] = 1 \/ c[y[1] - 1] \in LineTerminators
              /\ y[2] = Len(c) \/ c[y[2] + 1] \in LineTerminators}}

Blank(l, a, b) == \A k \in a..b : l[k] \in WhiteSpace

\* l is: blanks, version, blanks, =, blanks, a quote at q, a version without
\* quotes, a quote at h, blanks
IsVersionLine(l, q, h) ==
  /\ q + 1 < h
  /\ l[q] \in Quotes
  /\ l[h] \in Quotes
  /\ \A k \in (q + 1)..(h - 1) : l[k] \notin Quotes
  /\ Blank(l, h + 1, Len(l))
  /\ \E e \in 1..(q - 1) :
       /\ l[e] = "="
       /\ Blank(l, e + 1, q - 1)
       /\ \E a \in 1..(e - Len(VERSION)) :
            /\ Blank(l, 1, a - 1)
            /\ SubSeq(l, a, a + Len(VERSION) - 1) = VERSION
            /\ Blank(l, a + Len(VERSION), e - 1)

\* the versions a pyproject.toml holds in lines of that form
HeldVersions(c) ==
  UNION {{SubSeq(l, qh[1] + 1, qh[2] - 1) :
            qh \in {x \in (1..Len(l)) \X (1..Len(l)) :
                      IsVersionLine(l, x[1], x[2])}} :
         l \in LinesOf(c)}

C9_TagFromVersion ==
  (Truthy(tagWithVersion) /\ Resolved /\ error = NoError) =>
    /\ (manifest.kind = "json" /\ manifest.version.t = "chars"
          /\ manifest.version.v # <<>>) =>
         packageVersion = Str("v" \o Hyphenated(manifest.version.v))
    /\ (manifest.kind = "text" /\ HeldVersions(manifest.content) # {}) =>
         \E x \in HeldVersions(manifest.content) :
           packageVersion = Str("v" \o Hyphenated(x))

C9_WitnessNode ==
  /\ pc = "done"
  /\ manifest = [kind |-> "json", version |-> Chars(V123)]
  /\ packageVersion = Str("v1-2-3")

C9_WitnessPython ==
  /\ pc = "done"
  /\ manifest.kind = "text"
  /\ V040 \in HeldVersions(manifest.content)
  /\ packageVersion = Str("v0-4-0")


(***************************************************************************)
(* C10 (secrets variant): every entry that is not of the shape             *)
(* NAME=SECRET:VERSION is dropped with one warning, the others are passed  *)
(* in order in one set-secrets flag, and the command is on the beta        *)
(* surface with a set-secrets flag exactly when a valid entry remains.     *)
(* The code accepts every entry that holds a = and a : anywhere.           *)
(***************************************************************************)
\* a non-empty name without = or :, then =, a non-empty secret, then :, a
\* non-empty version
IsSecretShape(s) ==
  \E i \in 2..Len(s) : \E j \in (i + 2)..(Len(s) - 1) :
    /\ s[i] = "="
    /\ \A k \in 1..(i - 1) : s[k] \notin {"=", ":"}
    /\ s[j] = ":"
    /\ \A k \in (i + 1)..(j - 1) : s[k] \notin {"=", ":"}
    /\ \A k \in (j + 1)..Len(s) : s[k] \notin {"=", ":"}

ShapedSecrets == SelectSeq(options.secrets, IsSecretShape)
SetSecretsTokens ==
  {"--set-secrets=" \o JoinWith([i \in 1..Len(l) |-> Join(l[i])], ",") :
     l \in SecretLists \ {<<>>}}

C10_MalformedSecretsFiltered ==
  pc = "done" =>
    /\ error = NoError
    /\ Len(warnings) = Len(options.secrets) - Len(ShapedSecrets)
    /\ validSecrets = ShapedSecrets
    /\ IF ShapedSecrets # <<>>
         THEN /\ commandParts[1] = "gcloud beta run deploy " \o name.v
              /\ Tokens \cap SetSecretsTokens =
                   {"--set-secrets="
                      \o JoinWith([i \in 1..Len(ShapedSecrets) |->
                                     Join(ShapedSecrets[i])], ",")}
         ELSE /\ commandParts[1] = "gcloud run deploy " \o name.v
              /\ Tokens \cap SetSecretsTokens = {}

============================================================================
